---- MODULE Spec2Model ----
(***************************************************************************)
(* Model of server/modules/exbench_module.py: parse_model_string,          *)
(* run_benchmark_for_model and generate_report.                            *)
(*                                                                         *)
(* A Python str is a sequence of tokens (words, the provider delimiter,    *)
(* white space, code fences); string concatenation is \o.  No word of the  *)
(* model contains the delimiter, a fence or white space, so two token      *)
(* sequences are equal exactly when the strings they spell are.            *)
(* Python floats that are quotients of small integers are kept as reduced  *)
(* fractions [num, den].                                                   *)
(***************************************************************************)
EXTENDS Integers, Sequences, FiniteSets, TLC

VARIABLES
    \* run_benchmark_for_model
    model, benchmark_file, pc, provider, model_name, i, prompt,
    bench_response, results, error, raisedAt, rendered, calls,
    \* parse_model_string on its own
    ms, parsed,
    \* generate_report
    complete_result, outcome

vars == <<model, benchmark_file, pc, provider, model_name, i, prompt,
          bench_response, results, error, raisedAt, rendered, calls,
          ms, parsed, complete_result, outcome>>

runVars == <<model, benchmark_file, pc, provider, model_name, i, prompt,
             bench_response, results, error, raisedAt, rendered, calls>>
parseVars == <<ms, parsed>>
reportVars == <<complete_result, outcome>>

\* ------------------------------------------------------------------ bounds
MaxPrompts == 2
MaxTokens == 4
MaxResults == 6

\* ------------------------------------------------------------------ strings
provider_delimiter == "~"

WhiteSpace == {" ", "\n"}

RECURSIVE LStrip(_)
LStrip(t) ==
    IF t # <<>> /\ Head(t) \in WhiteSpace THEN LStrip(Tail(t)) ELSE t

RECURSIVE RStrip(_)
RStrip(t) ==
    IF t # <<>> /\ t[Len(t)] \in WhiteSpace
    THEN RStrip(SubSeq(t, 1, Len(t) - 1))
    ELSE t

\* str.strip()
Strip(t) == RStrip(LStrip(t))

\* `sub in s` for a one-token sub
Contains(s, tok) == \E k \in 1..Len(s) : s[k] = tok

\* s.find(tok) + 1 (0 when absent)
Find(s, tok) ==
    IF Contains(s, tok)
    THEN CHOOSE k \in 1..Len(s) : s[k] = tok /\ \A j \in 1..(k - 1) : s[j] # tok
    ELSE 0

\* model.split(provider_delimiter)
RECURSIVE Split(_)
Split(s) ==
    IF ~Contains(s, provider_delimiter)
    THEN <<s>>
    ELSE LET k == Find(s, provider_delimiter)
         IN <<SubSeq(s, 1, k - 1)>> \o Split(SubSeq(s, k + 1, Len(s)))

\* a join that forgets the delimiter between the parts
RECURSIVE JoinNoDelimiter(_)
JoinNoDelimiter(parts) ==
    IF parts = <<>> THEN <<>> ELSE Head(parts) \o JoinNoDelimiter(Tail(parts))

\* provider_delimiter.join(model_parts)
RECURSIVE Join(_)
Join(parts) ==
    IF parts = <<>> THEN <<>>
    ELSE IF Len(parts) = 1 THEN Head(parts)
    ELSE Head(parts) \o <<provider_delimiter>> \o Join(Tail(parts))

\* ------------------------------------------------------- parse_model_string
\* the allow-list with a commented-out provider switched on
supported_providers_with_mlx ==
    {<<"ollama">>, <<"anthropic">>, <<"deepseek">>, <<"openai">>, <<"gemini">>,
     <<"mlx">>}

supported_providers ==
    {<<"ollama">>, <<"anthropic">>, <<"deepseek">>, <<"openai">>, <<"gemini">>}

\* Returns [raised |-> FALSE, provider, model_name] or the ValueError.
parse_model_string(m) ==
    IF ~Contains(m, provider_delimiter)
    THEN [raised |-> FALSE, provider |-> <<"ollama">>, model_name |-> m]
    ELSE LET parts == Split(m)
             prov == Head(parts)
             name == Join(Tail(parts))
         IN IF prov \notin supported_providers
            THEN [raised |-> TRUE,
                  text |-> <<"Unsupported provider:", " ">> \o prov]
            ELSE [raised |-> FALSE, provider |-> prov, model_name |-> name]


\* --------------------------------------------------------- prompt templating
\* f"{{{{{key}}}}}": the marker of a key
Marker == [x |-> "{{x}}", y |-> "{{y}}"]

\* prompt.replace(marker, str(value))
RECURSIVE Replace(_, _, _)
Replace(p, marker, value) ==
    IF p = <<>> THEN <<>>
    ELSE (IF Head(p) = marker THEN value ELSE <<Head(p)>>)
         \o Replace(Tail(p), marker, value)

\* lines 103-106: dynamic_variables is the dict's items in insertion order
RECURSIVE RenderPrompt(_, _)
RenderPrompt(p, dynamic_variables) ==
    IF dynamic_variables = <<>> THEN p
    ELSE RenderPrompt(Replace(p, Marker[Head(dynamic_variables)[1]],
                              Head(dynamic_variables)[2]),
                      Tail(dynamic_variables))

\* ------------------------------------------------------ external capabilities
\* A response body that is not text (None): reserved token, part of no text.
NoneBody == "<None>"
IsText(body) == ~Contains(body, NoneBody)

\* the triple-backtick fence marker, one token
Fence == "<fence>"

\* utils.parse_markdown_backticks (spec 4.3): the content of the first fenced
\* block, its opening fence taking an optional language tag up to the end of
\* the line; the trimmed text when there is no fence.
parse_markdown_backticks(text) ==
    IF ~Contains(text, Fence) THEN Strip(text)
    ELSE LET after == SubSeq(text, Find(text, Fence) + 1, Len(text))
             body == IF Contains(after, "\n")
                     THEN SubSeq(after, Find(after, "\n") + 1, Len(after))
                     ELSE after
             inner == IF Contains(body, Fence)
                      THEN SubSeq(body, 1, Find(body, Fence) - 1)
                      ELSE body
         IN Strip(inner)

\* What a completion capability (<provider>_llm.bench_prompt) can do with a
\* call: return a response, return one whose body is not text, or raise.
CompletionTexts ==
    {<<"Here:", "\n", Fence, "python", "\n", "print(4)", "\n", Fence, "\n">>,
     <<" ", "print(7)", "\n">>,
     <<"4">>}

CompletionOutcomes(prov) ==
    {[kind |-> "returned",
      response |-> [response |-> t, tokens_per_second |-> 50,
                    provider |-> prov, total_duration_ms |-> 20,
                    load_duration_ms |-> 5, errored |-> FALSE]]
        : t \in CompletionTexts \cup {<<NoneBody>>}}
    \cup {[kind |-> "raised", text |-> <<"boom">>]}

\* execution_evaluators.execute_python_code (spec 6): execute(code) -> text or
\* raises.  A program prints its output or fails (time-out); text that is no
\* program fails.
ProgramOutput(code) ==
    CASE code = <<"print(4)">> -> <<"4", "\n">>
      [] code = <<"print(7)">> -> <<"7", "\n">>
      [] code = <<"4">> -> <<>>

IsProgram(code) == code \in {<<"print(4)">>, <<"print(7)">>, <<"4">>}

ExecOutcomes(code) ==
    IF IsProgram(code)
    THEN {[kind |-> "returned", text |-> ProgramOutput(code)],
          [kind |-> "raised", text |-> <<"timeout">>]}
    ELSE {[kind |-> "raised", text |-> <<"SyntaxError">>]}

\* The evaluator kinds of ExeEvalType; other_evaluator is any further member.
NumOutput == "execute_python_code_with_num_output"
StringOutput == "execute_python_code_with_string_output"
RawString == "raw_string_evaluator"
OtherEvaluator == "other_evaluator"
ExeEvalType == {NumOutput, StringOutput, RawString, OtherEvaluator}

NumValue == [t \in {"4", "4.0", "7"} |-> IF t = "7" THEN 7 ELSE 4]
IsNumber(t) == Len(t) = 1 /\ t[1] \in DOMAIN NumValue

\* execution_evaluators.eval_result_compare (spec 4.4)
eval_result_compare(kind, expected, actual) ==
    IF kind = NumOutput
    THEN /\ IsNumber(Strip(expected))
         /\ IsNumber(Strip(actual))
         /\ NumValue[Strip(expected)[1]] = NumValue[Strip(actual)[1]]
    ELSE Strip(expected) = Strip(actual)


\* -------------------------------------------------- run_benchmark_for_model
\* The model strings the runner is started with: one per provider of the
\* allow-list, a bare name, a name that holds the delimiter, unknown providers.
RunnerModels ==
    {<<"llama3">>,
     <<"ollama", "~", "llama3">>,
     <<"anthropic", "~", "claude">>,
     <<"deepseek", "~", "chat">>,
     <<"openai", "~", "gpt", "~", "4">>,
     <<"gemini", "~", "pro">>,
     <<"mlx", "~", "m">>,
     <<"~", "m">>}

base_prompt == <<"add", " ", "{{x}}", " ", "{{y}}">>

\* PromptRow: dynamic_variables (items in insertion order), str(expectation)
PromptRows ==
    {[dynamic_variables |-> <<<<"x", <<"2">>>>, <<"y", <<"2">>>>>>,
      expectation |-> <<" ", "4">>],
     [dynamic_variables |-> <<>>,
      expectation |-> <<"Error:", " ", "boom">>],
     [dynamic_variables |-> <<<<"x", <<"3">>>>>>,
      expectation |-> <<"7">>]}

RECURSIVE SeqsUpTo(_, _)
SeqsUpTo(S, n) ==
    IF n = 0 THEN {<<>>}
    ELSE LET shorter == SeqsUpTo(S, n - 1)
         IN shorter \cup {Append(s, x) : s \in {t \in shorter : Len(t) = n - 1},
                                         x \in S}

NoResponse ==
    [response |-> <<>>, tokens_per_second |-> 0, provider |-> <<>>,
     total_duration_ms |-> 0, load_duration_ms |-> 0, errored |-> FALSE]

NoError == [site |-> "none", text |-> <<>>]

\* the except-branch response with errored left False
OllamaErrorResponseNotErrored(text) ==
    [response |-> <<"Error:", " ">> \o text, tokens_per_second |-> 0,
     provider |-> <<"ollama">>, total_duration_ms |-> 0,
     load_duration_ms |-> 0, errored |-> FALSE]

\* lines 115-122
OllamaErrorResponse(text) ==
    [response |-> <<"Error:", " ">> \o text, tokens_per_second |-> 0,
     provider |-> <<"ollama">>, total_duration_ms |-> 0,
     load_duration_ms |-> 0, errored |-> TRUE]

\* lines 109-137: the branch of the if/elif chain a provider takes
DispatchBranch(prov) ==
    IF prov = <<"ollama">> THEN "ollama"
    ELSE IF prov \in {<<"anthropic">>, <<"deepseek">>, <<"openai">>, <<"gemini">>}
    THEN "remote"
    ELSE "unsupported"

\* an index counted from 0
ResultIndexFromZero(k) == k - 1

\* enumerate(benchmark_file.prompts, 1) and index=i
ResultIndex(k) == k

\* lines 144-172: the try block and its except clause, given what
\* execute_python_code does when it is called.  exception is the text of the
\* exception the except clause caught, if any.
TryEvaluate(evaluator, cleaned_code, expected_result, ex) ==
    IF evaluator \in {NumOutput, StringOutput}
    THEN IF ex.kind = "raised"
         THEN [execution_result |-> ex.text, correct |-> FALSE,
               caught |-> TRUE, exception |-> ex.text]
         ELSE [execution_result |-> ex.text,
               correct |-> eval_result_compare(
                               evaluator, expected_result,
                               IF evaluator = NumOutput THEN Strip(ex.text)
                               ELSE ex.text),
               caught |-> FALSE, exception |-> <<>>]
    ELSE IF evaluator = RawString
    THEN [execution_result |-> cleaned_code,
          correct |-> eval_result_compare(evaluator, expected_result, cleaned_code),
          caught |-> FALSE, exception |-> <<>>]
    ELSE [execution_result |-> <<"Unsupported evaluator:", " ", evaluator>>,
          correct |-> FALSE, caught |-> TRUE,
          exception |-> <<"Unsupported evaluator:", " ", evaluator>>]

NumPrompts == Len(benchmark_file.prompts)

Init ==
    /\ model \in RunnerModels
    /\ benchmark_file \in
           [base_prompt : {base_prompt}, evaluator : ExeEvalType,
            prompts : SeqsUpTo(PromptRows, MaxPrompts)]
    /\ pc = "start"
    /\ provider = <<>>
    /\ model_name = <<>>
    /\ i = 0
    /\ prompt = <<>>
    /\ bench_response = NoResponse
    /\ results = <<>>
    /\ error = NoError
    /\ raisedAt = {}
    /\ rendered = 0
    /\ calls = 0
    /\ ms = <<>>
    /\ parsed = [state |-> "unused"]
    /\ complete_result = [results |-> <<>>]
    /\ outcome = [kind |-> "unused"]

\* lines 92-97
ParseModel ==
    /\ pc = "start"
    /\ LET r == parse_model_string(model)
       IN IF r.raised
          THEN /\ pc' = "raised"
               /\ error' = [site |-> "parse_model_string", text |-> r.text]
               /\ UNCHANGED <<provider, model_name, i>>
          ELSE /\ pc' = "loop"
               /\ provider' = r.provider
               /\ model_name' = r.model_name
               /\ i' = 1
               /\ error' = error
    /\ UNCHANGED <<model, benchmark_file, prompt, bench_response, results,
                   raisedAt, rendered, calls>>
    /\ UNCHANGED <<parseVars, reportVars>>

\* lines 99-137: render the prompt of row i and get the benchmark response
Dispatch ==
    /\ pc = "loop"
    /\ i <= NumPrompts
    /\ prompt' = RenderPrompt(benchmark_file.base_prompt,
                              benchmark_file.prompts[i].dynamic_variables)
    /\ rendered' = rendered + 1
    /\ IF DispatchBranch(provider) = "unsupported"
       THEN /\ pc' = "raised"
            /\ error' = [site |-> "dispatch",
                         text |-> <<"Unsupported model provider:", " ">> \o provider]
            /\ UNCHANGED <<bench_response, calls, raisedAt>>
       ELSE /\ calls' = calls + 1
            /\ \E out \in CompletionOutcomes(provider) :
                  IF out.kind = "returned"
                  THEN /\ bench_response' = out.response
                       /\ pc' = "evaluate"
                       /\ UNCHANGED <<error, raisedAt>>
                  ELSE /\ raisedAt' = raisedAt \cup
                              {[index |-> i, site |-> "bench_prompt",
                                text |-> out.text]}
                       /\ IF DispatchBranch(provider) = "ollama"
                          THEN /\ bench_response' = OllamaErrorResponse(out.text)
                               /\ pc' = "evaluate"
                               /\ error' = error
                          ELSE /\ pc' = "raised"
                               /\ error' = [site |-> "bench_prompt",
                                            text |-> out.text]
                               /\ bench_response' = bench_response
    /\ UNCHANGED <<model, benchmark_file, provider, model_name, i, results>>
    /\ UNCHANGED <<parseVars, reportVars>>

\* lines 139-185: extract, execute, evaluate and store the result of row i
Evaluate ==
    /\ pc = "evaluate"
    /\ IF ~IsText(bench_response.response)
       THEN \* line 140 raises, outside the try block
            /\ pc' = "raised"
            /\ error' = [site |-> "parse_markdown_backticks",
                         text |-> <<"TypeError">>]
            /\ raisedAt' = raisedAt \cup
                   {[index |-> i, site |-> "parse_markdown_backticks",
                     text |-> <<"TypeError">>]}
            /\ UNCHANGED <<results, i>>
       ELSE LET cleaned_code == parse_markdown_backticks(bench_response.response)
                expected_result == Strip(benchmark_file.prompts[i].expectation)
                evaluator == benchmark_file.evaluator
            IN \E ex \in (IF evaluator \in {NumOutput, StringOutput}
                          THEN ExecOutcomes(cleaned_code)
                          ELSE {[kind |-> "not called", text |-> <<>>]}) :
                  LET t == TryEvaluate(evaluator, cleaned_code, expected_result, ex)
                  IN /\ results' = Append(results,
                            [input_prompt |-> prompt,
                             prompt_response |-> bench_response,
                             execution_result |-> t.execution_result,
                             expected_result |-> expected_result,
                             model |-> model,
                             correct |-> t.correct,
                             index |-> ResultIndex(i)])
                     /\ raisedAt' =
                            IF t.caught
                            THEN raisedAt \cup
                                 {[index |-> i,
                                   site |-> IF ex.kind = "raised"
                                            THEN "execute_python_code"
                                            ELSE "evaluator",
                                   text |-> t.exception]}
                            ELSE raisedAt
                     /\ i' = i + 1
                     /\ pc' = "loop"
                     /\ error' = error
    /\ UNCHANGED <<model, benchmark_file, provider, model_name, prompt,
                   bench_response, rendered, calls>>
    /\ UNCHANGED <<parseVars, reportVars>>

\* line 186
Return ==
    /\ pc = "loop"
    /\ i > NumPrompts
    /\ pc' = "done"
    /\ UNCHANGED <<model, benchmark_file, provider, model_name, i, prompt,
                   bench_response, results, error, raisedAt, rendered, calls>>
    /\ UNCHANGED <<parseVars, reportVars>>

Next == ParseModel \/ Dispatch \/ Evaluate \/ Return

Spec == Init /\ [][Next]_vars


\* ---------------------------------------------- parse_model_string, alone
ModelTokens ==
    {"ollama", "anthropic", "deepseek", "openai", "gemini", "mlx", "llama3",
     provider_delimiter}

\* every model string of at most MaxTokens tokens, the empty one included
ModelStrings == SeqsUpTo(ModelTokens, MaxTokens)

InitParse ==
    /\ ms \in ModelStrings
    /\ parsed = [state |-> "called"]
    /\ model = <<>>
    /\ benchmark_file = [base_prompt |-> base_prompt, evaluator |-> RawString,
                         prompts |-> <<>>]
    /\ pc = "unused"
    /\ provider = <<>>
    /\ model_name = <<>>
    /\ i = 0
    /\ prompt = <<>>
    /\ bench_response = NoResponse
    /\ results = <<>>
    /\ error = NoError
    /\ raisedAt = {}
    /\ rendered = 0
    /\ calls = 0
    /\ complete_result = [results |-> <<>>]
    /\ outcome = [kind |-> "unused"]

\* lines 27-59
ParseModelString ==
    /\ parsed.state = "called"
    /\ LET r == parse_model_string(ms)
       IN parsed' = IF r.raised
                    THEN [state |-> "raised", text |-> r.text]
                    ELSE [state |-> "returned", provider |-> r.provider,
                          model_name |-> r.model_name]
    /\ UNCHANGED <<ms, runVars, reportVars>>

NextParse == ParseModelString

SpecParse == InitParse /\ [][NextParse]_vars


\* ------------------------------------------------------------ generate_report
RECURSIVE Gcd(_, _)
Gcd(a, b) == IF b = 0 THEN a ELSE Gcd(b, a % b)

\* Python's a / b on numbers: the reduced fraction; a zero divisor raises
\* ZeroDivisionError, kept as the fraction with den = 0.
ZeroDivisionError == [num |-> 0, den |-> 0]
IsRaised(q) == q.den = 0

TrueDiv(a, b) ==
    IF b = 0 THEN ZeroDivisionError
    ELSE IF a = 0 THEN [num |-> 0, den |-> 1]
    ELSE [num |-> a \div Gcd(a, b), den |-> b \div Gcd(a, b)]

FracAdd(p, q) == TrueDiv(p.num * q.den + q.num * p.den, p.den * q.den)
FracDiv(p, n) == TrueDiv(p.num, p.den * n)

\* sum(f(r) for r in seq), f given as a sequence of numbers
RECURSIVE Sum(_)
Sum(xs) == IF xs = <<>> THEN 0 ELSE Head(xs) + Sum(Tail(xs))

RECURSIVE FracSum(_)
FracSum(qs) ==
    IF qs = <<>> THEN [num |-> 0, den |-> 1]
    ELSE FracAdd(Head(qs), FracSum(Tail(qs)))

Field(seq, f) == [k \in 1..Len(seq) |-> seq[k][f]]

\* a grouping step that starts the model's list afresh on every result
GroupStepOverwrite(groups, result) ==
    IF \E k \in 1..Len(groups) : groups[k].model = result.model
    THEN [k \in 1..Len(groups) |->
             IF groups[k].model = result.model
             THEN [groups[k] EXCEPT !.results = <<result>>]
             ELSE groups[k]]
    ELSE Append(groups, [model |-> result.model, results |-> <<result>>])

\* lines 259-261: one step of the grouping loop; the dict is the sequence of
\* its items in insertion order
GroupStep(groups, result) ==
    IF \E k \in 1..Len(groups) : groups[k].model = result.model
    THEN [k \in 1..Len(groups) |->
             IF groups[k].model = result.model
             THEN [groups[k] EXCEPT !.results = Append(@, result)]
             ELSE groups[k]]
    ELSE Append(groups, [model |-> result.model, results |-> <<result>>])

\* lines 257-261
RECURSIVE GroupByModel(_, _)
GroupByModel(groups, rs) ==
    IF rs = <<>> THEN groups
    ELSE GroupByModel(GroupStep(groups, Head(rs)), Tail(rs))

\* lines 265-290
ModelReport(group) ==
    LET rs == group.results
        correct_count == Cardinality({k \in 1..Len(rs) : rs[k].correct})
    IN [model |-> group.model,
        results |-> rs,
        correct_count |-> correct_count,
        incorrect_count |-> Len(rs) - correct_count,
        accuracy |-> TrueDiv(correct_count, Len(rs)),
        average_tokens_per_second |->
            TrueDiv(Sum([k \in 1..Len(rs) |-> rs[k].prompt_response.tokens_per_second]),
                    Len(rs)),
        average_total_duration_ms |->
            TrueDiv(Sum([k \in 1..Len(rs) |-> rs[k].prompt_response.total_duration_ms]),
                    Len(rs)),
        average_load_duration_ms |->
            TrueDiv(Sum([k \in 1..Len(rs) |-> rs[k].prompt_response.load_duration_ms]),
                    Len(rs))]

\* the equal-weight mean of the per-model accuracies
MeanOfModelAccuracies(model_reports) ==
    IF Len(model_reports) = 0 THEN ZeroDivisionError
    ELSE FracDiv(FracSum(Field(model_reports, "accuracy")), Len(model_reports))

\* lines 293-295
OverallAccuracy(model_reports) ==
    TrueDiv(Sum(Field(model_reports, "correct_count")),
            Sum(Field(model_reports, "correct_count"))
                + Sum(Field(model_reports, "incorrect_count")))

\* lines 297-305: the mean of a per-model mean over the models
MeanOverModels(model_reports, f) ==
    IF Len(model_reports) = 0 THEN ZeroDivisionError
    ELSE FracDiv(FracSum(Field(model_reports, f)), Len(model_reports))

\* lines 190-317.  Lines 193-244 compute what lines 254-305 compute again;
\* the first division by zero, in either pass, ends the call.
generate_report(cr) ==
    LET groups == GroupByModel(<<>>, cr.results)
        model_reports == [k \in 1..Len(groups) |-> ModelReport(groups[k])]
        ratios == {model_reports[k][f] :
                      k \in 1..Len(model_reports),
                      f \in {"accuracy", "average_tokens_per_second",
                             "average_total_duration_ms",
                             "average_load_duration_ms"}}
        overall_accuracy == OverallAccuracy(model_reports)
        avg_tokens_per_second ==
            MeanOverModels(model_reports, "average_tokens_per_second")
        avg_total_duration ==
            MeanOverModels(model_reports, "average_total_duration_ms")
        avg_load_duration ==
            MeanOverModels(model_reports, "average_load_duration_ms")
    IN IF \/ \E q \in ratios : IsRaised(q)
          \/ IsRaised(overall_accuracy)
          \/ IsRaised(avg_tokens_per_second)
          \/ IsRaised(avg_total_duration)
          \/ IsRaised(avg_load_duration)
       THEN [kind |-> "raised", exception |-> "ZeroDivisionError"]
       ELSE [kind |-> "returned",
             report |->
                 [models |-> model_reports,
                  overall_correct_count |-> Sum(Field(model_reports, "correct_count")),
                  overall_incorrect_count |->
                      Sum(Field(model_reports, "incorrect_count")),
                  overall_accuracy |-> overall_accuracy,
                  average_tokens_per_second |-> avg_tokens_per_second,
                  average_total_duration_ms |-> avg_total_duration,
                  average_load_duration_ms |-> avg_load_duration]]

\* The results of a CompleteResult as generate_report reads them.
ReportModels == {<<"llama3">>, <<"openai", "~", "gpt">>, <<"gemini", "~", "pro">>}

\* Each model answers with its own timing profile.
ReportResponse(m) ==
    IF m = <<"llama3">>
    THEN [tokens_per_second |-> 50, total_duration_ms |-> 20, load_duration_ms |-> 5]
    ELSE IF m = <<"openai", "~", "gpt">>
    THEN [tokens_per_second |-> 30, total_duration_ms |-> 40, load_duration_ms |-> 0]
    ELSE [tokens_per_second |-> 0, total_duration_ms |-> 0, load_duration_ms |-> 0]

ReportResults ==
    {[model |-> m, correct |-> c, prompt_response |-> ReportResponse(m)] :
        m \in ReportModels, c \in BOOLEAN}

InitReport ==
    /\ complete_result \in [results : SeqsUpTo(ReportResults, MaxResults)]
    /\ outcome = [kind |-> "called"]
    /\ ms = <<>>
    /\ parsed = [state |-> "unused"]
    /\ model = <<>>
    /\ benchmark_file = [base_prompt |-> base_prompt, evaluator |-> RawString,
                         prompts |-> <<>>]
    /\ pc = "unused"
    /\ provider = <<>>
    /\ model_name = <<>>
    /\ i = 0
    /\ prompt = <<>>
    /\ bench_response = NoResponse
    /\ results = <<>>
    /\ error = NoError
    /\ raisedAt = {}
    /\ rendered = 0
    /\ calls = 0

GenerateReport ==
    /\ outcome.kind = "called"
    /\ outcome' = generate_report(complete_result)
    /\ UNCHANGED <<complete_result, runVars, parseVars>>

NextReport == GenerateReport

SpecReport == InitReport /\ [][NextReport]_vars


\* ===================================================================== claims
AllowList ==
    {<<"ollama">>, <<"anthropic">>, <<"deepseek">>, <<"openai">>, <<"gemini">>}

BeforeDelimiter(s) == SubSeq(s, 1, Find(s, provider_delimiter) - 1)
AfterDelimiter(s) == SubSeq(s, Find(s, provider_delimiter) + 1, Len(s))

\* the results stored so far belong, in order, to the first prompt rows
ResultsFollowPrompts ==
    /\ Len(results) <= NumPrompts
    /\ \A k \in 1..Len(results) :
          /\ results[k].index = k
          /\ results[k].expected_result = Strip(benchmark_file.prompts[k].expectation)
          /\ results[k].input_prompt =
                 RenderPrompt(benchmark_file.base_prompt,
                              benchmark_file.prompts[k].dynamic_variables)
          /\ results[k].model = model

PipelineSites == {"parse_markdown_backticks", "execute_python_code", "evaluator"}

\* C1 as stated: for every model string and benchmark file the run ends by
\* returning exactly N results with indices 1..N in prompt order.
C1_AlwaysYieldsNResults ==
    pc \in {"done", "raised"} =>
        /\ pc = "done"
        /\ Len(results) = NumPrompts
        /\ ResultsFollowPrompts

\* C1 amended: every list the run returns has exactly N results with indices
\* 1..N in prompt order, also when prompts raised execution or evaluation
\* errors or local completions failed; the run raises instead of returning only
\* for an unsupported provider tag, a failed remote completion or a failed code
\* extraction.
C1_ReturnedListHasNResults ==
    /\ ResultsFollowPrompts
    /\ pc = "done" => Len(results) = NumPrompts
    /\ pc = "raised" =>
          error.site \in {"parse_model_string", "bench_prompt",
                          "parse_markdown_backticks"}

C1_Witness ==
    /\ pc = "done"
    /\ Len(results) = 2
    /\ \E e \in raisedAt : e.site = "execute_python_code" /\ e.index = 1

\* C4: with an evaluator kind that is none of the three, a run over at least
\* one prompt fails with the unsupported-evaluator error: it stores no result
\* and does not return.
C4_UnsupportedEvaluatorAborts ==
    (benchmark_file.evaluator = OtherEvaluator /\ NumPrompts >= 1) =>
        (results = <<>> /\ pc # "done")

\* C5: an exception raised while extracting, executing or evaluating one
\* prompt never ends the run, and that prompt's result is stored with
\* correct = false and the error text as execution_result.
C5_PipelineExceptionsCaught ==
    /\ error.site \notin PipelineSites
    /\ \A e \in raisedAt :
          e.site \in PipelineSites =>
              /\ Len(results) >= e.index
              /\ ~results[e.index].correct
              /\ results[e.index].execution_result = e.text

IsOllamaErrorResponse(r, text) ==
    /\ r.errored
    /\ r.tokens_per_second = 0
    /\ r.total_duration_ms = 0
    /\ r.load_duration_ms = 0
    /\ r.provider = <<"ollama">>
    /\ r.response = <<"Error:", " ">> \o text

\* C6: under the ollama provider a failed completion call never ends the run:
\* the prompt's response is the errored response with zeroed timings and the
\* error text, the prompt's result carries it, and the loop moves on.
C6_OllamaFailureIsRecorded ==
    /\ error.site = "bench_prompt" => DispatchBranch(provider) # "ollama"
    /\ DispatchBranch(provider) = "ollama" =>
          \A e \in raisedAt :
              e.site = "bench_prompt" =>
                  /\ e.index <= i
                  /\ e.index = i =>
                        /\ pc = "evaluate"
                        /\ IsOllamaErrorResponse(bench_response, e.text)
                  /\ e.index < i =>
                        /\ Len(results) >= e.index
                        /\ IsOllamaErrorResponse(
                               results[e.index].prompt_response, e.text)

C6_Witness ==
    /\ pc = "done"
    /\ provider = <<"ollama">>
    /\ Len(results) = 2
    /\ \E e \in raisedAt : e.site = "bench_prompt" /\ e.index = 1
    /\ ~results[2].prompt_response.errored

\* C7: a stored result whose response is errored is never correct.
C7_ErroredIsIncorrect ==
    \A k \in 1..Len(results) :
        results[k].prompt_response.errored => ~results[k].correct

\* C8: parse_model_string returns ("ollama", input) for a string without the
\* delimiter, and otherwise the text before the first delimiter and all the
\* text after it, so that provider + "~" + name is the input.
C8_ParseRoundTrips ==
    parsed.state = "returned" =>
        IF ~Contains(ms, provider_delimiter)
        THEN parsed.provider = <<"ollama">> /\ parsed.model_name = ms
        ELSE /\ parsed.provider = BeforeDelimiter(ms)
             /\ parsed.model_name = AfterDelimiter(ms)
             /\ parsed.provider \o <<provider_delimiter>> \o parsed.model_name = ms

C8_Witness ==
    /\ parsed.state = "returned"
    /\ Contains(ms, provider_delimiter)
    /\ Contains(parsed.model_name, provider_delimiter)

\* C9: a model string whose tag is not in the allow-list makes the run raise
\* at parse time, before any prompt is rendered, any completion is requested
\* or any result is stored; and the dispatcher's unsupported-provider branch
\* is never taken.
C9_UnknownTagFailsAtParse ==
    /\ error.site # "dispatch"
    /\ pc \in {"loop", "evaluate", "done"} =>
          DispatchBranch(provider) # "unsupported"
    /\ (/\ Contains(model, provider_delimiter)
        /\ BeforeDelimiter(model) \notin AllowList
        /\ pc # "start") =>
          /\ pc = "raised"
          /\ error.site = "parse_model_string"
          /\ rendered = 0
          /\ calls = 0
          /\ results = <<>>

C9_Witness ==
    /\ pc = "raised"
    /\ error.site = "parse_model_string"
    /\ NumPrompts >= 1
    /\ BeforeDelimiter(model) = <<"mlx">>

\* ------------------------------------------------------------ report claims
InputModels == {complete_result.results[k].model :
                   k \in 1..Len(complete_result.results)}

CorrectIn(rs) == Cardinality({k \in 1..Len(rs) : rs[k].correct})

ResultsOfModel(m) ==
    LET OfModel(r) == r.model = m
    IN SelectSeq(complete_result.results, OfModel)

\* C2: the overall accuracy of a returned report is the equal-weight mean of
\* the per-model accuracies (3/4 and 2/2 give 7/8), not the pooled ratio of all
\* correct results to all results (5/6).
C2_OverallIsMeanOfModels ==
    outcome.kind = "returned" =>
        outcome.report.overall_accuracy
            = MeanOfModelAccuracies(outcome.report.models)

\* C3: generate_report never ends in a division error.
C3_NoDivisionError == outcome.kind # "raised"

\* C10: the model reports partition the input results by model string, each
\* group in input order, with counts that add up.
C10_ReportsPartitionResults ==
    outcome.kind = "returned" =>
        LET reps == outcome.report.models
        IN /\ \A m \in InputModels :
                 Cardinality({k \in 1..Len(reps) : reps[k].model = m}) = 1
           /\ \A k \in 1..Len(reps) :
                 /\ reps[k].model \in InputModels
                 /\ reps[k].results = ResultsOfModel(reps[k].model)
                 /\ reps[k].correct_count = CorrectIn(reps[k].results)
                 /\ reps[k].correct_count + reps[k].incorrect_count
                        = Len(reps[k].results)
           /\ outcome.report.overall_correct_count
                  + outcome.report.overall_incorrect_count
                  = Len(complete_result.results)

C10_Witness ==
    /\ outcome.kind = "returned"
    /\ Len(outcome.report.models) = 3
    /\ Len(complete_result.results) >= 4
    /\ complete_result.results[1].model # complete_result.results[2].model
    /\ complete_result.results[3].model = complete_result.results[1].model

====
